---------------------------- MODULE Spec2Model ----------------------------
(***************************************************************************)
(* True stress - true strain curve of ASME BPVC VIII-2 Annex 3-D, as       *)
(* computed by class StressStraineCurve (stress_strain_curve.py) and by    *)
(* its unfinished variant (stress_strain_cuve.py).                         *)
(*                                                                         *)
(* Floats are carried as scaled integers:                                  *)
(*   stresses        in 10^-3 MPa  (735.01 MPa  = 735010),                 *)
(*   strains         in 10^-8      (0.002       = 200000),                 *)
(*   Ey              in MPa,                                               *)
(*   m2              in 10^-3.                                             *)
(* The transcendental helper chain (_R, K, _H, _A_2, _epsilon_2, _m1, _A1, *)
(* _epsilon_1, math.tanh) is evaluated in IEEE double by the source and    *)
(* its results _gamma_1, _gamma_2 are tabulated per constructor-argument   *)
(* row on the stress values the stepping loop visits.                      *)
(***************************************************************************)
EXTENDS Integers, Sequences, FiniteSets, TLC

\* ------------------------------------------------------------------ bounds
\* Operations (compute / to_csv / show_curve) a caller invokes on one object.
MaxCalls == 2

\* Cap on loop iterations of one compute() call; only a non-positive step
\* reaches it (the longest terminating curve of the rows below has 73).
MaxIter == 76

\* Times the caller mutates a list that compute() returned to it.
MaxMutations == 1

\* --------------------------------------------------------- program constants
\* self.ε_ys = 0.002
EpsYs == 200000

\* delta_sigma_t: int = 10
DefaultStep == 10000

\* ---------------------------------------------------------------- arithmetic
Abs(x) == IF x < 0 THEN -x ELSE x

\* round(x, n) of Python on a value x held as an integer count of some unit,
\* to a multiple of `unit`: nearest multiple, ties to the even multiple.
RoundHalfEven(x, unit) ==
  LET q == x \div unit
      r == x % unit
  IN  IF 2 * r > unit \/ (2 * r = unit /\ q % 2 = 1)
        THEN (q + 1) * unit
        ELSE q * unit

\* math.exp(m2) in units of 10^-8, for the m2 values of Materials.
Exp8(m2) ==
  CASE m2 = 600 -> 182211880
    [] m2 = 0   -> 100000000

\* self.sigma_uts * math.exp(self.m2) in units of 10^-5 MPa: a three-digit
\* limb product (a in 10^-3 MPa, b in 10^-8), i.e. floor(a * b / 10^6).
SigmaTimesExp(a, b) ==
  LET a1 == a \div 1000
      a0 == a % 1000
      b1 == b \div 1000
      b0 == b % 1000
  IN  a1 * b1 + ((a1 * b0 + a0 * b1) + ((a0 * b0) \div 1000)) \div 1000

\* sigma_t / self.Ey in strain units (10^-8), by long division.
StressOverEy(sigma_t, Ey) ==
  LET n  == sigma_t * 1000
      q1 == n \div Ey
      r1 == n % Ey
  IN  q1 * 100 + ((r1 * 100) \div Ey)

\* Constructor arguments exercised by the model.  Row 1 is the ASTM A182 F22
\* example of main.py; the other rows vary one argument at a time.
Materials ==
  << [sigma_ys |-> 190320, sigma_uts |-> 403380, Ey |-> 198740, m2 |-> 600, eps_p |-> 2000],
     [sigma_ys |-> 190320, sigma_uts |-> 403380, Ey |-> 198740, m2 |-> 600, eps_p |-> 200],
     [sigma_ys |-> 190320, sigma_uts |-> 403380, Ey |-> 198740, m2 |-> 600, eps_p |-> 0],
     [sigma_ys |-> 190320, sigma_uts |-> 403380, Ey |-> 198740, m2 |-> 600, eps_p |-> 200000],
     [sigma_ys |-> 403380, sigma_uts |-> 403380, Ey |-> 198740, m2 |-> 600, eps_p |-> 2000],
     [sigma_ys |-> 190320, sigma_uts |-> 403380, Ey |-> 198740, m2 |-> 0, eps_p |-> 2000],
     [sigma_ys |-> 190320, sigma_uts |-> 403380, Ey |-> 0, m2 |-> 600, eps_p |-> 2000],
     [sigma_ys |-> 1, sigma_uts |-> 2, Ey |-> 198740, m2 |-> 600, eps_p |-> 2000],
     [sigma_ys |-> 55000, sigma_uts |-> 109760, Ey |-> 70000, m2 |-> 600, eps_p |-> 2000] >>

\* Exception raised inside the helper chain _gamma_1/_gamma_2 (math.log10 of a
\* non-positive number, float division by zero), per row of Materials.
ChainExc ==
  << "none", "none", "ValueError", "ZeroDivisionError", "ZeroDivisionError", "ZeroDivisionError", "none", "none", "none" >>

\* Gamma1Grid[i][k+1]: _gamma_1(k * 10 MPa) for row i of Materials, in StrainUnit.
Gamma1Grid ==
  << <<0, 0, 0, 1, 6, 25, 76, 193, 436, 894, 1700, 3037, 5160, 8400, 13187, 20061, 29681, 42834, 60413, 83348, 112445, 148016, 189209, 232956, 272930, 299799, 304544, 284124, 244351, 196205, 149528, 109800, 78589, 55264, 38376, 26401, 18030, 12238, 8264, 5554, 3717, 2478, 1645, 1089, 718, 472, 310, 202, 132, 86, 56, 36, 23, 15, 10, 6, 4, 3, 2, 1, 1, 0, 0, 0, 0, 0, 0, 0, 0, 0, 0, 0, 0, 0, 0, 0>>,
     <<0, 0, 0, 0, 0, 0, 2, 9, 31, 91, 238, 568, 1258, 2614, 5144, 9655, 17388, 30184, 50667, 82419, 129996, 198541, 292435, 412259, 549861, 683976, 782976, 819477, 787331, 703526, 594488, 482396, 380336, 293735, 223394, 167873, 124916, 92172, 67505, 49106, 35498, 25511, 18233, 12963, 9171, 6457, 4526, 3159, 2195, 1520, 1048, 720, 493, 336, 229, 155, 105, 71, 48, 32, 21, 14, 9, 6, 4, 3, 2, 1, 1, 1, 0, 0, 0, 0, 0, 0>>,
     <<>>,
     <<>>,
     <<>>,
     <<>>,
     <<0, 0, 0, 1, 6, 25, 76, 193, 436, 894, 1700, 3037, 5160, 8400, 13187, 20061, 29681, 42834, 60413, 83348, 112445, 148016, 189209, 232956, 272930, 299799, 304544, 284124, 244351, 196205, 149528, 109800, 78589, 55264, 38376, 26401, 18030, 12238, 8264, 5554, 3717, 2478, 1645, 1089, 718, 472, 310, 202, 132, 86, 56, 36, 23, 15, 10, 6, 4, 3, 2, 1, 1, 0, 0, 0, 0, 0, 0, 0, 0, 0, 0, 0, 0, 0, 0, 0>>,
     <<0>>,
     <<0, 1, 106, 1549, 10393, 45269, 144887, 300986, 244756, 85759, 22657, 5436, 1230, 266, 55, 11, 2, 0, 0, 0, 0, 0, 0>> >>

\* Gamma2Grid[i][k+1]: _gamma_2(k * 10 MPa) for row i of Materials, in StrainUnit.
Gamma2Grid ==
  << <<0, 0, 0, 1, 2, 5, 12, 27, 59, 125, 260, 532, 1072, 2136, 4214, 8238, 15976, 30748, 58730, 111242, 208587, 385874, 700214, 1235062, 2090396, 3342810, 4978645, 6854808, 8753184, 10494963, 12005959, 13298962, 14425125, 15438976, 16384177, 17291468, 18181068, 19065769, 19953471, 20848975, 21755151, 22673693, 23605574, 24551336, 25511260, 26485471, 27474005, 28476838, 29493921, 30525182, 31570543, 32629920, 33703227, 34790377, 35891286, 37005868, 38134043, 39275728, 40430844, 41599315, 42781064, 43976017, 45184101, 46405246, 47639382, 48886442, 50146357, 51419064, 52704499, 54002598, 55313300, 56636544, 57972273, 59320427, 60680949, 62053784>>,
     <<0, 0, 0, 1, 2, 5, 12, 27, 59, 125, 260, 532, 1072, 2136, 4214, 8238, 15976, 30748, 58730, 111242, 208587, 385874, 700214, 1235062, 2090396, 3342810, 4978645, 6854808, 8753184, 10494963, 12005959, 13298962, 14425125, 15438976, 16384177, 17291468, 18181068, 19065769, 19953471, 20848975, 21755151, 22673693, 23605574, 24551336, 25511260, 26485471, 27474005, 28476838, 29493921, 30525182, 31570543, 32629920, 33703227, 34790377, 35891286, 37005868, 38134043, 39275728, 40430844, 41599315, 42781064, 43976017, 45184101, 46405246, 47639382, 48886442, 50146357, 51419064, 52704499, 54002598, 55313300, 56636544, 57972273, 59320427, 60680949, 62053784>>,
     <<>>,
     <<>>,
     <<>>,
     <<>>,
     <<0, 0, 0, 1, 2, 5, 12, 27, 59, 125, 260, 532, 1072, 2136, 4214, 8238, 15976, 30748, 58730, 111242, 208587, 385874, 700214, 1235062, 2090396, 3342810, 4978645, 6854808, 8753184, 10494963, 12005959, 13298962, 14425125, 15438976, 16384177, 17291468, 18181068, 19065769, 19953471, 20848975, 21755151, 22673693, 23605574, 24551336, 25511260, 26485471, 27474005, 28476838, 29493921, 30525182, 31570543, 32629920, 33703227, 34790377, 35891286, 37005868, 38134043, 39275728, 40430844, 41599315, 42781064, 43976017, 45184101, 46405246, 47639382, 48886442, 50146357, 51419064, 52704499, 54002598, 55313300, 56636544, 57972273, 59320427, 60680949, 62053784>>,
     <<0>>,
     <<0, 1, 17, 268, 3404, 38621, 394160, 3001968, 9912094, 15246234, 18803923, 22138964, 25608434, 29265166, 33112814, 37147988, 41366607, 45764790, 50338945, 55085751, 60002120, 65085178, 70332233>> >>

\* Gamma1Uts[i]: _gamma_1(_sigma_uts_t()) for row i of Materials, in StrainUnit.
Gamma1Uts ==
  <<0, 0, 0, 0, 0, 0, 0, 0, 0>>

\* Gamma2Uts[i]: _gamma_2(_sigma_uts_t()) for row i of Materials, in StrainUnit.
Gamma2Uts ==
  <<60000506, 60000506, 0, 0, 0, 0, 60000506, 0, 60002120>>

\* ---------------------------------------------------------------- the object
VARIABLES
  pc,               \* "new" (before __init__), "idle", "loop", "ret"
  args,             \* the arguments handed to __init__
  self,             \* the fields of the object
  op,               \* entry point entered last: "none", "compute", "to_csv", "show_curve"
  current_sigma_t,  \* local of compute()
  ts_ref,           \* local true_stress of compute(): index into heap
  tn_ref,           \* local true_strain of compute(): index into heap
  heap,             \* the list objects allocated so far
  results,          \* what direct compute() calls returned to the caller
  csv,              \* stress_strain_curve.csv
  figures,          \* figures created by plt.subplots()
  png,              \* stress_strain_curve.png
  exc,              \* exception the last finished operation propagated
  calls,            \* operations started
  muts,             \* caller mutations done
  query             \* one evaluation of the total-strain formula on free inputs

vars == << pc, args, self, op, current_sigma_t, ts_ref, tn_ref, heap, results,
           csv, figures, png, exc, calls, muts, query >>

StepValues == {DefaultStep, 50000, 1000000, 0, -10000}

NoFields ==
  [sigma_ys |-> 0, sigma_uts |-> 0, Ey |-> 0, m2 |-> 0, eps_p |-> 0,
   eps_ys |-> 0, delta_sigma_t |-> 0]

NoQuery == [sigma_t |-> 0, Ey |-> 1, eps_p |-> 0, gamma_1 |-> 0, gamma_2 |-> 0,
            asked |-> FALSE, out |-> 0]

NoFile == [exists |-> FALSE, header |-> FALSE, rows |-> << >>]

\* Row of Materials the object was built from.
MaterialOf(s) ==
  CHOOSE i \in 1..Len(Materials) :
    /\ Materials[i].sigma_ys = s.sigma_ys
    /\ Materials[i].sigma_uts = s.sigma_uts
    /\ Materials[i].Ey = s.Ey
    /\ Materials[i].m2 = s.m2
    /\ Materials[i].eps_p = s.eps_p

\* ------------------------------------------------------- derived quantities
\* _sigma_uts_t(): round(self.sigma_uts * math.exp(self.m2), 2), in 10^-3 MPa.
_sigma_uts_t(s) ==
  RoundHalfEven(SigmaTimesExp(s.sigma_uts, Exp8(s.m2)), 1000) \div 100

\* The stress values for which the helper chain is tabulated.
Tabulated(s, sigma_t) ==
  LET i == MaterialOf(s)
  IN  \/ ChainExc[i] # "none"
      \/ sigma_t < 0
      \/ sigma_t = _sigma_uts_t(s)
      \/ /\ sigma_t % DefaultStep = 0
         /\ (sigma_t \div DefaultStep) + 1 <= Len(Gamma1Grid[i])

\* _gamma_1(sigma_t), _gamma_2(sigma_t): [exc, complex, val].  A negative
\* sigma_t makes (sigma_t / A) ** (1 / m) a complex number.
GammaLookup(s, sigma_t, grid, atUts) ==
  LET i == MaterialOf(s)
  IN  IF ChainExc[i] # "none"
        THEN [exc |-> ChainExc[i], complex |-> FALSE, val |-> 0]
      ELSE IF sigma_t < 0
        THEN [exc |-> "none", complex |-> TRUE, val |-> 0]
      ELSE IF sigma_t = _sigma_uts_t(s)
        THEN [exc |-> "none", complex |-> FALSE, val |-> atUts[i]]
      ELSE [exc |-> "none", complex |-> FALSE,
            val |-> grid[i][(sigma_t \div DefaultStep) + 1]]

_gamma_1(s, sigma_t) == GammaLookup(s, sigma_t, Gamma1Grid, Gamma1Uts)

_gamma_2(s, sigma_t) == GammaLookup(s, sigma_t, Gamma2Grid, Gamma2Uts)

\* The branch and the two roundings of _epsilon_t, on given contributions.
EpsilonTValue_StrictLess(sigma_t, Ey, eps_p, gamma_1, gamma_2) ==
  IF gamma_1 + gamma_2 < eps_p
    THEN RoundHalfEven(StressOverEy(sigma_t, Ey), 10000)
    ELSE RoundHalfEven(StressOverEy(sigma_t, Ey) + gamma_1 + gamma_2, 100000)

EpsilonTValue(sigma_t, Ey, eps_p, gamma_1, gamma_2) ==
  IF gamma_1 + gamma_2 <= eps_p
    THEN RoundHalfEven(StressOverEy(sigma_t, Ey), 10000)
    ELSE RoundHalfEven(StressOverEy(sigma_t, Ey) + gamma_1 + gamma_2, 100000)

\* _epsilon_t(sigma_t): [exc, val].
_epsilon_t(s, sigma_t) ==
  LET gamma_1 == _gamma_1(s, sigma_t)
      gamma_2 == _gamma_2(s, sigma_t)
  IN  IF gamma_1.exc # "none" THEN [exc |-> gamma_1.exc, val |-> 0]
      ELSE IF gamma_2.exc # "none" THEN [exc |-> gamma_2.exc, val |-> 0]
      ELSE IF gamma_1.complex \/ gamma_2.complex
        THEN [exc |-> "TypeError", val |-> 0]
      ELSE IF s.Ey = 0 THEN [exc |-> "ZeroDivisionError", val |-> 0]
      ELSE [exc |-> "none",
            val |-> EpsilonTValue(sigma_t, s.Ey, s.eps_p, gamma_1.val, gamma_2.val)]

\* ------------------------------------------------------------- initial state
Init ==
  /\ pc = "new"
  /\ args \in { [sigma_ys |-> Materials[i].sigma_ys,
                 sigma_uts |-> Materials[i].sigma_uts,
                 Ey |-> Materials[i].Ey,
                 m2 |-> Materials[i].m2,
                 epsilon_p |-> Materials[i].eps_p,
                 delta_sigma_t |-> st] : i \in 1..Len(Materials), st \in StepValues }
  /\ self = NoFields
  /\ op = "none"
  /\ current_sigma_t = 0
  /\ ts_ref = 0
  /\ tn_ref = 0
  /\ heap = << >>
  /\ results = << >>
  /\ csv = NoFile
  /\ figures = 0
  /\ png = [exists |-> FALSE, x |-> << >>, y |-> << >>]
  /\ exc = "none"
  /\ calls = 0
  /\ muts = 0
  /\ query = NoQuery

\* ------------------------------------------------ stress_strain_curve.py
\* __init__: stores the arguments; nothing is checked.
Construct ==
  /\ pc = "new"
  /\ self' = [sigma_ys |-> args.sigma_ys,
              sigma_uts |-> args.sigma_uts,
              Ey |-> args.Ey,
              m2 |-> args.m2,
              eps_p |-> args.epsilon_p,
              eps_ys |-> EpsYs,
              delta_sigma_t |-> args.delta_sigma_t]
  /\ pc' = "idle"
  /\ UNCHANGED << args, op, current_sigma_t, ts_ref, tn_ref, heap, results,
                  csv, figures, png, exc, calls, muts, query >>

\* Entry of compute() with the two lists created empty.
EnterCompute_NoOrigin(o) ==
  /\ pc = "idle"
  /\ calls < MaxCalls
  /\ calls' = calls + 1
  /\ op' = o
  /\ exc' = "none"
  /\ current_sigma_t' = 0
  /\ heap' = heap \o << << >>, << >> >>
  /\ ts_ref' = Len(heap) + 1
  /\ tn_ref' = Len(heap) + 2
  /\ pc' = "loop"
  /\ UNCHANGED << args, self, results, muts, query >>

\* Entry of compute() on behalf of entry point o: current_sigma_t = 0.0,
\* true_stress = [0.0], true_strain = [0.0] (two new list objects).
EnterCompute(o) ==
  /\ pc = "idle"
  /\ calls < MaxCalls
  /\ calls' = calls + 1
  /\ op' = o
  /\ exc' = "none"
  /\ current_sigma_t' = 0
  /\ heap' = heap \o << <<0>>, <<0>> >>
  /\ ts_ref' = Len(heap) + 1
  /\ tn_ref' = Len(heap) + 2
  /\ pc' = "loop"
  /\ UNCHANGED << args, self, results, muts, query >>

\* The caller calls compute().
CallCompute ==
  /\ EnterCompute("compute")
  /\ UNCHANGED << csv, figures, png >>

\* to_csv() with the file opened (created or truncated) before the curve is
\* computed.
CallToCsv_OpenFirst ==
  /\ EnterCompute("to_csv")
  /\ csv' = [exists |-> TRUE, header |-> FALSE, rows |-> << >>]
  /\ UNCHANGED << figures, png >>

\* The caller calls to_csv(): fields = [...], then self.compute().
CallToCsv ==
  /\ EnterCompute("to_csv")
  /\ UNCHANGED << csv, figures, png >>

\* The caller calls show_curve(): self.compute() comes first.
CallShowCurve ==
  /\ EnterCompute("show_curve")
  /\ UNCHANGED << csv, figures, png >>

\* An exception leaves compute() and the entry point that called it.
Raise(e) ==
  /\ pc' = "idle"
  /\ exc' = e
  /\ UNCHANGED op

\* One iteration of the while loop, with the step never added.
ComputeLoopStep_NoAdvance ==
  /\ pc = "loop"
  /\ current_sigma_t < _sigma_uts_t(self) - self.delta_sigma_t
  /\ Len(heap[ts_ref]) <= MaxIter
  /\ heap' = [heap EXCEPT ![ts_ref] = Append(@, current_sigma_t),
                          ![tn_ref] = Append(@, 0)]
  /\ UNCHANGED << pc, op, exc, current_sigma_t, args, self, ts_ref, tn_ref,
                  results, csv, figures, png, calls, muts, query >>

\* One iteration of the while loop, guarded by <= in place of <.
ComputeLoopStep_GuardInclusive ==
  /\ pc = "loop"
  /\ current_sigma_t <= _sigma_uts_t(self) - self.delta_sigma_t
  /\ Len(heap[ts_ref]) <= MaxIter
  /\ LET nxt == current_sigma_t + self.delta_sigma_t
         e   == _epsilon_t(self, nxt)
     IN  /\ current_sigma_t' = nxt
         /\ IF e.exc # "none"
              THEN /\ heap' = [heap EXCEPT ![ts_ref] = Append(@, nxt)]
                   /\ Raise(e.exc)
              ELSE /\ heap' = [heap EXCEPT ![ts_ref] = Append(@, nxt),
                                           ![tn_ref] = Append(@, e.val)]
                   /\ UNCHANGED << pc, op, exc >>
  /\ UNCHANGED << args, self, ts_ref, tn_ref, results, csv, figures, png,
                  calls, muts, query >>

\* One iteration of the while loop:
\*   current_sigma_t += self.delta_sigma_t
\*   true_stress.append(current_sigma_t)
\*   true_strain.append(self._epsilon_t(current_sigma_t))
ComputeLoopStep ==
  /\ pc = "loop"
  /\ current_sigma_t < _sigma_uts_t(self) - self.delta_sigma_t
  /\ Len(heap[ts_ref]) <= MaxIter
  /\ LET nxt == current_sigma_t + self.delta_sigma_t
         e   == _epsilon_t(self, nxt)
     IN  /\ current_sigma_t' = nxt
         /\ IF e.exc # "none"
              THEN /\ heap' = [heap EXCEPT ![ts_ref] = Append(@, nxt)]
                   /\ Raise(e.exc)
              ELSE /\ heap' = [heap EXCEPT ![ts_ref] = Append(@, nxt),
                                           ![tn_ref] = Append(@, e.val)]
                   /\ UNCHANGED << pc, op, exc >>
  /\ UNCHANGED << args, self, ts_ref, tn_ref, results, csv, figures, png,
                  calls, muts, query >>

\* After the loop, appending the final point only when the loop body ran.
ComputeFinal_OnlyAfterLoop ==
  /\ pc = "loop"
  /\ ~ (current_sigma_t < _sigma_uts_t(self) - self.delta_sigma_t)
  /\ LET uts == _sigma_uts_t(self)
         e   == _epsilon_t(self, uts)
     IN  IF current_sigma_t = 0
           THEN /\ pc' = "ret"
                /\ UNCHANGED << heap, op, exc >>
         ELSE IF e.exc # "none"
           THEN /\ heap' = [heap EXCEPT ![ts_ref] = Append(@, uts)]
                /\ Raise(e.exc)
           ELSE /\ heap' = [heap EXCEPT ![ts_ref] = Append(@, uts),
                                        ![tn_ref] = Append(@, e.val)]
                /\ pc' = "ret"
                /\ UNCHANGED << op, exc >>
  /\ UNCHANGED << args, self, current_sigma_t, ts_ref, tn_ref, results, csv,
                  figures, png, calls, muts, query >>

\* After the loop:
\*   true_stress.append(self._sigma_uts_t())
\*   true_strain.append(self._epsilon_t(self._sigma_uts_t()))
ComputeFinal ==
  /\ pc = "loop"
  /\ ~ (current_sigma_t < _sigma_uts_t(self) - self.delta_sigma_t)
  /\ LET uts == _sigma_uts_t(self)
         e   == _epsilon_t(self, uts)
     IN  IF e.exc # "none"
           THEN /\ heap' = [heap EXCEPT ![ts_ref] = Append(@, uts)]
                /\ Raise(e.exc)
           ELSE /\ heap' = [heap EXCEPT ![ts_ref] = Append(@, uts),
                                        ![tn_ref] = Append(@, e.val)]
                /\ pc' = "ret"
                /\ UNCHANGED << op, exc >>
  /\ UNCHANGED << args, self, current_sigma_t, ts_ref, tn_ref, results, csv,
                  figures, png, calls, muts, query >>

\* return (true_stress, true_strain), into the hands of a direct caller, when
\* the lists handed out are those of the first call.
ReturnToCaller_SharedLists ==
  /\ pc = "ret"
  /\ op = "compute"
  /\ LET sr == IF results = << >> THEN ts_ref ELSE results[1].stress_ref
         nr == IF results = << >> THEN tn_ref ELSE results[1].strain_ref
     IN  results' = Append(results,
                      [stress_ref |-> sr, strain_ref |-> nr,
                       stress |-> heap[sr], strain |-> heap[nr], muts |-> muts])
  /\ pc' = "idle"
  /\ UNCHANGED << args, self, op, current_sigma_t, ts_ref, tn_ref, heap, csv,
                  figures, png, exc, calls, muts, query >>

\* return (true_stress, true_strain), into the hands of a direct caller.  The
\* caller keeps the two references; stress/strain record the lists' contents
\* at the moment of the return.
ReturnToCaller ==
  /\ pc = "ret"
  /\ op = "compute"
  /\ results' = Append(results,
                  [stress_ref |-> ts_ref, strain_ref |-> tn_ref,
                   stress |-> heap[ts_ref], strain |-> heap[tn_ref],
                   muts |-> muts])
  /\ pc' = "idle"
  /\ UNCHANGED << args, self, op, current_sigma_t, ts_ref, tn_ref, heap, csv,
                  figures, png, exc, calls, muts, query >>

\* zip(true_stresses, true_strains)
Zip(a, b) ==
  [k \in 1..(IF Len(a) < Len(b) THEN Len(a) ELSE Len(b)) |-> << a[k], b[k] >>]

\* Rest of to_csv() once compute() has returned: open(filename, 'w'), the
\* header row, one row per point.
ToCsvWrite ==
  /\ pc = "ret"
  /\ op = "to_csv"
  /\ csv' = [exists |-> TRUE, header |-> TRUE,
             rows |-> Zip(heap[ts_ref], heap[tn_ref])]
  /\ pc' = "idle"
  /\ UNCHANGED << args, self, op, current_sigma_t, ts_ref, tn_ref, heap,
                  results, figures, png, exc, calls, muts, query >>

\* Rest of show_curve() once compute() has returned: plt.subplots(),
\* ax.plot(true_strain, true_stress), fig.savefig(...), plt.show().
ShowCurvePlot ==
  /\ pc = "ret"
  /\ op = "show_curve"
  /\ figures' = figures + 1
  /\ png' = [exists |-> TRUE, x |-> heap[tn_ref], y |-> heap[ts_ref]]
  /\ pc' = "idle"
  /\ UNCHANGED << args, self, op, current_sigma_t, ts_ref, tn_ref, heap,
                  results, csv, exc, calls, muts, query >>

\* The caller owns the returned lists and appends to one of them.
CallerMutate ==
  /\ pc = "idle"
  /\ muts < MaxMutations
  /\ \E i \in DOMAIN results :
       \E r \in {results[i].stress_ref, results[i].strain_ref} :
         heap' = [heap EXCEPT ![r] = Append(@, -1)]
  /\ muts' = muts + 1
  /\ UNCHANGED << pc, args, self, op, current_sigma_t, ts_ref, tn_ref,
                  results, csv, figures, png, exc, calls, query >>

Next ==
  \/ Construct
  \/ CallCompute
  \/ CallToCsv
  \/ CallShowCurve
  \/ ComputeLoopStep
  \/ ComputeFinal
  \/ ReturnToCaller
  \/ ToCsvWrite
  \/ ShowCurvePlot
  \/ CallerMutate

Spec == Init /\ [][Next]_vars

\* compute() is straight-line code: once entered, its loop and its final
\* append are always taken.
FairSpec ==
  /\ Spec
  /\ WF_vars(ComputeLoopStep)
  /\ WF_vars(ComputeFinal)
  /\ WF_vars(ReturnToCaller)
  /\ WF_vars(ToCsvWrite)
  /\ WF_vars(ShowCurvePlot)

\* ------------------------------------------------- stress_strain_cuve.py
\* sigma_uts_t(): self.σ_uts * math.exp(self.m2), not rounded; in 10^-5 MPa.
sigma_uts_t(s) == SigmaTimesExp(s.sigma_uts, Exp8(s.m2))

\* Stress values at which the caller asks for epsilon_t.
CuveQueryStresses == {0, DefaultStep, 100000}

\* __init__ of the variant: stores the arguments; nothing is checked.
CuveConstruct ==
  /\ pc = "new"
  /\ self' = [sigma_ys |-> args.sigma_ys,
              sigma_uts |-> args.sigma_uts,
              Ey |-> args.Ey,
              m2 |-> args.m2,
              eps_p |-> args.epsilon_p,
              eps_ys |-> EpsYs,
              delta_sigma_t |-> args.delta_sigma_t]
  /\ pc' = "idle"
  /\ UNCHANGED << args, op, current_sigma_t, ts_ref, tn_ref, heap, results,
                  csv, figures, png, exc, calls, muts, query >>

\* compute(): current_sigma_t = 0, sigma_t = [0], epsilon_t = [0].
CuveCallCompute ==
  /\ pc = "idle"
  /\ calls < MaxCalls
  /\ calls' = calls + 1
  /\ op' = "compute"
  /\ exc' = "none"
  /\ current_sigma_t' = 0
  /\ heap' = heap \o << <<0>>, <<0>> >>
  /\ ts_ref' = Len(heap) + 1
  /\ tn_ref' = Len(heap) + 2
  /\ pc' = "loop"
  /\ UNCHANGED << args, self, results, csv, figures, png, muts, query >>

\* while current_sigma_t < (self.sigma_uts_t() - self.sigma_t_step):
\*     current_sigma_t += self.sigma_t_step
CuveLoopStep ==
  /\ pc = "loop"
  /\ current_sigma_t * 100 < sigma_uts_t(self) - self.delta_sigma_t * 100
  /\ Abs(current_sigma_t) < MaxIter * Abs(self.delta_sigma_t)
  /\ current_sigma_t' = current_sigma_t + self.delta_sigma_t
  /\ UNCHANGED << pc, args, self, op, ts_ref, tn_ref, heap, results, csv,
                  figures, png, exc, calls, muts, query >>

\* return ([1.0], [1.0])
CuveReturn ==
  /\ pc = "loop"
  /\ ~ (current_sigma_t * 100 < sigma_uts_t(self) - self.delta_sigma_t * 100)
  /\ heap' = heap \o << <<1000>>, <<100000000>> >>
  /\ results' = Append(results,
                  [stress_ref |-> Len(heap) + 1, strain_ref |-> Len(heap) + 2,
                   stress |-> <<1000>>, strain |-> <<100000000>>,
                   muts |-> muts])
  /\ pc' = "idle"
  /\ UNCHANGED << args, self, op, current_sigma_t, ts_ref, tn_ref, csv,
                  figures, png, exc, calls, muts, query >>

\* epsilon_t(sigma_t): evaluates gamma_1 and gamma_2, then return 10.0.
CuveEpsilonT ==
  /\ pc = "idle"
  /\ calls < MaxCalls
  /\ calls' = calls + 1
  /\ op' = "epsilon_t"
  /\ \E sigma_t \in CuveQueryStresses :
       /\ Tabulated(self, sigma_t)
       /\ LET gamma_1 == _gamma_1(self, sigma_t)
              gamma_2 == _gamma_2(self, sigma_t)
          IN  IF gamma_1.exc # "none"
                THEN exc' = gamma_1.exc /\ UNCHANGED query
              ELSE IF gamma_2.exc # "none"
                THEN exc' = gamma_2.exc /\ UNCHANGED query
              ELSE /\ exc' = "none"
                   /\ query' = [sigma_t |-> sigma_t, Ey |-> self.Ey,
                                eps_p |-> self.eps_p,
                                gamma_1 |-> gamma_1.val,
                                gamma_2 |-> gamma_2.val,
                                asked |-> TRUE, out |-> 1000000000]
  /\ UNCHANGED << pc, args, self, current_sigma_t, ts_ref, tn_ref, heap,
                  results, csv, figures, png, muts >>

\* to_csv(): pass
CuveToCsv ==
  /\ pc = "idle"
  /\ calls < MaxCalls
  /\ calls' = calls + 1
  /\ op' = "to_csv"
  /\ exc' = "none"
  /\ UNCHANGED << pc, args, self, current_sigma_t, ts_ref, tn_ref, heap,
                  results, csv, figures, png, muts, query >>

NextCuve ==
  \/ CuveConstruct
  \/ CuveCallCompute
  \/ CuveLoopStep
  \/ CuveReturn
  \/ CuveEpsilonT
  \/ CuveToCsv

SpecCuve == Init /\ [][NextCuve]_vars

\* ------------------------------------- the total-strain formula on its own
QuerySigma == {DefaultStep, 50000, 100000, 250000}

QueryEy == {70000, 198740}

QueryEpsP == {200, 2000}

QueryGamma == {0, 100, 200, 1000, 2000, 30000, 250000}

InitBranch ==
  /\ pc = "idle"
  /\ args = [sigma_ys |-> Materials[1].sigma_ys,
             sigma_uts |-> Materials[1].sigma_uts,
             Ey |-> Materials[1].Ey,
             m2 |-> Materials[1].m2,
             epsilon_p |-> Materials[1].eps_p,
             delta_sigma_t |-> DefaultStep]
  /\ self = [sigma_ys |-> Materials[1].sigma_ys,
             sigma_uts |-> Materials[1].sigma_uts,
             Ey |-> Materials[1].Ey,
             m2 |-> Materials[1].m2,
             eps_p |-> Materials[1].eps_p,
             eps_ys |-> EpsYs,
             delta_sigma_t |-> DefaultStep]
  /\ op = "none"
  /\ current_sigma_t = 0
  /\ ts_ref = 0
  /\ tn_ref = 0
  /\ heap = << >>
  /\ results = << >>
  /\ csv = NoFile
  /\ figures = 0
  /\ png = [exists |-> FALSE, x |-> << >>, y |-> << >>]
  /\ exc = "none"
  /\ calls = 0
  /\ muts = 0
  /\ query \in [sigma_t : QuerySigma, Ey : QueryEy, eps_p : QueryEpsP,
                gamma_1 : QueryGamma, gamma_2 : QueryGamma,
                asked : {FALSE}, out : {0}]

\* The branch test and the return statements of _epsilon_t, applied to the
\* contributions gamma_1 and gamma_2 of the query.
EvaluateEpsilonT ==
  /\ ~ query.asked
  /\ query' = [query EXCEPT
                 !.asked = TRUE,
                 !.out = EpsilonTValue(query.sigma_t, query.Ey, query.eps_p,
                                       query.gamma_1, query.gamma_2)]
  /\ UNCHANGED << pc, args, self, op, current_sigma_t, ts_ref, tn_ref, heap,
                  results, csv, figures, png, exc, calls, muts >>

NextBranch == EvaluateEpsilonT

SpecBranch == InitBranch /\ [][NextBranch]_vars

\* ------------------------------------------------------------------ properties
\* 0 < sigma_ys < sigma_uts, Ey > 0, m2 != 0, step > 0.
ValidParams(s) ==
  /\ 0 < s.sigma_ys
  /\ s.sigma_ys < s.sigma_uts
  /\ s.Ey > 0
  /\ s.m2 # 0
  /\ s.delta_sigma_t > 0

\* Yield ratio R = sigma_ys / sigma_uts strictly between 0 and 1.
PhysicallyValid(s) ==
  /\ 0 < s.sigma_ys
  /\ s.sigma_ys < s.sigma_uts
  /\ s.Ey > 0
  /\ s.m2 # 0

\* ceil(a / b) for b > 0.
CeilDiv(a, b) == (a + b - 1) \div b

\* max(0, ceil((true_uts - step) / step)).
ExpectedIterations(s) ==
  LET c == CeilDiv(_sigma_uts_t(s) - s.delta_sigma_t, s.delta_sigma_t)
  IN  IF c < 0 THEN 0 ELSE c

\* C1 (as stated): for all valid parameters compute() returns, and what it
\* returns are two non-empty sequences of equal length that start with 0.0 and
\* 0.0.
C1_ValidAlwaysReturns ==
  (ValidParams(self) /\ pc = "idle" /\ calls > 0 /\ op = "compute") =>
    /\ exc = "none"
    /\ results # << >>
    /\ \A k \in DOMAIN results :
         /\ Len(results[k].stress) >= 1
         /\ Len(results[k].stress) = Len(results[k].strain)
         /\ results[k].stress[1] = 0
         /\ results[k].strain[1] = 0

\* C1 (amended): whenever compute() returns, it returns two non-empty
\* sequences of equal length whose first elements are 0.0 and 0.0; the first
\* point is put there before any strain is evaluated, so it is there also when
\* the call goes on to raise.
C1_ReturnedCurveStartsAtOrigin ==
  /\ \A k \in DOMAIN results :
       /\ Len(results[k].stress) >= 1
       /\ Len(results[k].stress) = Len(results[k].strain)
       /\ results[k].stress[1] = 0
       /\ results[k].strain[1] = 0
  /\ pc \in {"loop", "ret"} =>
       /\ Len(heap[ts_ref]) >= 1
       /\ Len(heap[tn_ref]) >= 1
       /\ heap[ts_ref][1] = 0
       /\ heap[tn_ref][1] = 0

C1_Witness ==
  /\ ValidParams(self)
  /\ results # << >>
  /\ Len(results[1].stress) > 2
  /\ results[1].strain[Len(results[1].strain)] > 0

\* C2: for every valid input the last point compute() returns has stress
\* true_uts, which is sigma_uts * e^m2 rounded to 2 decimals (a multiple of
\* 0.01 MPa within 0.005 MPa of the product), and strain epsilon_t(true_uts);
\* this holds whether or not the step divides true_uts and when the loop body
\* never runs.
C2_LastPointIsTrueUts ==
  \A k \in DOMAIN results :
    ValidParams(self) =>
      LET s == results[k].stress
          n == Len(s)
          product == SigmaTimesExp(self.sigma_uts, Exp8(self.m2))
      IN  /\ n >= 2
          /\ s[n] % 10 = 0
          /\ 2 * Abs(s[n] * 100 - product) <= 1000
          /\ s[n] = _sigma_uts_t(self)
          /\ Len(results[k].strain) = n
          /\ results[k].strain[n] = _epsilon_t(self, s[n]).val

\* The loop body never ran and the final point is there all the same.
C2_Witness ==
  /\ ValidParams(self)
  /\ results # << >>
  /\ self.delta_sigma_t >= _sigma_uts_t(self)
  /\ results[1].stress = << 0, _sigma_uts_t(self) >>
  /\ _sigma_uts_t(self) > 0

\* C3 (as stated): in a returned stress sequence every gap but the last equals
\* the step, and the last gap is greater than 0 and at most the step.
C3_LastGapPositive ==
  \A k \in DOMAIN results :
    ValidParams(self) =>
      LET s == results[k].stress
          n == Len(s)
      IN  /\ n >= 2
          /\ \A i \in 1..(n - 2) : s[i + 1] - s[i] = self.delta_sigma_t
          /\ s[n] - s[n - 1] > 0
          /\ s[n] - s[n - 1] <= self.delta_sigma_t

\* C3 (amended): in a returned stress sequence every gap but the last equals
\* the step, the last gap is at least 0 and at most the step, and it is
\* greater than 0 exactly when true_uts is greater than 0 (sigma_uts * e^m2
\* does not round to 0.00).
C3_GapsEqualStepLastGapBounded ==
  \A k \in DOMAIN results :
    ValidParams(self) =>
      LET s == results[k].stress
          n == Len(s)
      IN  /\ n >= 2
          /\ \A i \in 1..(n - 2) : s[i + 1] - s[i] = self.delta_sigma_t
          /\ s[n] - s[n - 1] >= 0
          /\ s[n] - s[n - 1] <= self.delta_sigma_t
          /\ (s[n] - s[n - 1] > 0) <=> (_sigma_uts_t(self) > 0)

\* A curve of several steps whose last gap equals the step exactly.
C3_Witness ==
  /\ ValidParams(self)
  /\ results # << >>
  /\ Len(results[1].stress) > 3
  /\ LET s == results[1].stress
     IN  s[Len(s)] - s[Len(s) - 1] = self.delta_sigma_t

\* C4: for a yield ratio strictly between 0 and 1 the returned strain sequence
\* is non-decreasing from point to point, also across the point where
\* _epsilon_t changes from the elastic-only to the blended branch.
C4_StrainNonDecreasing ==
  \A k \in DOMAIN results :
    PhysicallyValid(self) =>
      \A i \in 1..(Len(results[k].strain) - 1) :
        results[k].strain[i] <= results[k].strain[i + 1]

\* C5: _epsilon_t takes the elastic-only branch exactly when
\* gamma_1 + gamma_2 <= epsilon_p and then is sigma_t / Ey rounded to 4
\* decimals (a multiple of 10^-4 within half of 10^-4 of sigma_t / Ey);
\* otherwise it is sigma_t / Ey + gamma_1 + gamma_2 rounded to 3 decimals.
C5_BranchAndRounding ==
  query.asked =>
    LET elastic == StressOverEy(query.sigma_t, query.Ey)
        plastic == query.gamma_1 + query.gamma_2
    IN  IF plastic <= query.eps_p
          THEN /\ query.out % 10000 = 0
               /\ 2 * Abs(query.out - elastic) <= 10000
          ELSE /\ query.out % 100000 = 0
               /\ 2 * Abs(query.out - (elastic + plastic)) <= 100000

\* The boundary gamma_1 + gamma_2 = epsilon_p, where the two branches differ.
C5_Witness ==
  /\ query.asked
  /\ query.gamma_1 + query.gamma_2 = query.eps_p
  /\ query.gamma_1 > 0
  /\ query.out # RoundHalfEven(StressOverEy(query.sigma_t, query.Ey)
                                + query.gamma_1 + query.gamma_2, 100000)

\* C6: two compute() calls on one object return equal stress and equal strain
\* sequences; no operation writes a field of the object; every call returns
\* list objects of its own, so that what the caller does to an earlier result
\* does not show in a later one.
C6_Idempotent ==
  /\ pc # "new" =>
       self = [sigma_ys |-> args.sigma_ys, sigma_uts |-> args.sigma_uts,
               Ey |-> args.Ey, m2 |-> args.m2, eps_p |-> args.epsilon_p,
               eps_ys |-> EpsYs, delta_sigma_t |-> args.delta_sigma_t]
  /\ \A i \in DOMAIN results : \A j \in DOMAIN results :
       /\ results[i].stress = results[j].stress
       /\ results[i].strain = results[j].strain
       /\ results[i].stress_ref # results[j].strain_ref
       /\ i # j => /\ results[i].stress_ref # results[j].stress_ref
                   /\ results[i].strain_ref # results[j].strain_ref

\* The caller changed the first result before the second call returned.
C6_Witness ==
  /\ Len(results) = 2
  /\ results[2].muts > results[1].muts
  /\ heap[results[1].stress_ref] # results[1].stress
     \/ heap[results[1].strain_ref] # results[1].strain
  /\ Len(results[2].stress) > 2

\* C7: an object whose arguments break a structural precondition
\* (yield_stress >= ultimate_stress, plastic_exponent = 0, a non-positive
\* stress, modulus or step) does not come into being: construction fails, and
\* compute() is never entered on it.
C7_InvalidRejectedAtConstruction ==
  pc # "new" => /\ ValidParams(self)
                /\ self.sigma_uts > 0

\* C8: once curve generation has failed, to_csv() and show_curve() have
\* passed the failure on and there is no stress_strain_curve.csv (neither
\* created nor truncated nor written), no figure and no stress_strain_curve.png.
C8_NoOutputAfterFailure ==
  /\ exc # "none" =>
       /\ ~ csv.exists
       /\ ~ png.exists
       /\ figures = 0
       /\ pc = "idle"
  /\ csv.exists => /\ csv.header
                   /\ Len(csv.rows) >= 2

\* to_csv() has just failed.
C8_Witness ==
  /\ exc # "none"
  /\ op = "to_csv"
  /\ pc = "idle"
  /\ calls = 2

\* C9: in every variant compute() returns the derived curve (from (0, 0) to
\* true_uts, one strain per stress, computed by the formulas) and epsilon_t
\* returns the value of the branch formula; neither returns a fixed dummy.
C9_NoPlaceholder ==
  /\ \A k \in DOMAIN results :
       LET s == results[k].stress
           n == Len(s)
       IN  /\ s[1] = 0
           /\ results[k].strain[1] = 0
           /\ n >= 2
           /\ s[n] = _sigma_uts_t(self)
           /\ Len(results[k].strain) = n
           /\ \A i \in 2..n : results[k].strain[i] = _epsilon_t(self, s[i]).val
  /\ query.asked => query.out = _epsilon_t(self, query.sigma_t).val

=============================================================================
